---- MODULE Spec2Model ----
(***************************************************************************)
(* A model of the credential cache and the request preparation of          *)
(* claude-code-router-az: getAzureToken and azureAuthMiddleware of          *)
(* src/middleware/azure-auth.ts, run by a single-threaded event loop for   *)
(* several requests at once.  A request is suspended at the await of the   *)
(* token provider and at the await of getAzureToken; every action below is *)
(* one run-to-completion piece of the code between two such points.        *)
(***************************************************************************)
EXTENDS Integers, Sequences, FiniteSets, TLC

(* ------------------------------ bounds --------------------------------- *)
\* requests handled over the run, numbered in order of arrival
NumReqs == 2
\* how many times the clock is moved forward over the run
MaxAdvance == 2

Reqs == 1..NumReqs

(* ------------------------- program constants --------------------------- *)
AZURE_SCOPE == "https://cognitiveservices.azure.com/.default"
\* the "1 minute buffer" of the cache test
BufferMs == 60000
\* "Cache for 50 minutes"
CacheMs == 50 * 60 * 1000

\* the amounts Date.now() moves by between two turns of the event loop: two
\* milliseconds, and one millisecond less than the time an entry stays usable
Steps == {2, CacheMs - BufferMs - 1}

(* ------------------------------ values --------------------------------- *)
\* a Map with no entry
EmptyMap == [k \in {} |-> 0]
\* an absent (undefined) string-valued property
Absent == <<>>

AzureProvider == "azure-gpt4"
StaticProvider == "openrouter"
NoProvider == "none"

\* The Provider objects after the configuration is loaded: readConfigFile has
\* injected the token of the az CLI as api_key of the azure provider.
LoadedProviders ==
    (AzureProvider :> [ auth_type    |-> "azure",
                        api_key      |-> <<"az-cli-token">>,
                        api_base_url |-> << "https://your-resource-name.openai.azure.com",
                                            "/openai/",
                                            "deployments/gpt-4-deployment/chat/completions?api-version=2024-10-21" >> ])
 @@ (StaticProvider :> [ auth_type    |-> "static",
                         api_key      |-> <<"sk-xxx">>,
                         api_base_url |-> << "https://openrouter.ai/api/v1/chat/completions" >> ])

HeaderNames == {"authorization", "x-api-key", "api-key", "content-type"}
NoHeaders == [h \in HeaderNames |-> Absent]
\* the headers a request arrives with: the client's key in every key header
ClientHeaders ==
    [h \in HeaderNames |->
        IF h = "content-type" THEN <<"application/json">> ELSE <<"client-key">>]

\* req.azureDeployment / req.azureApiVersion as set by the router
Deployments == { [deployment |-> Absent, version |-> Absent],
                 [deployment |-> <<"gpt-4o-deployment">>, version |-> <<"2024-10-21">>],
                 [deployment |-> <<"gpt-35-turbo-deployment">>, version |-> <<"2024-06-01">>] }
NoDeployment == [deployment |-> Absent, version |-> Absent]

\* the inputs of one request: selectedProvider, headers, deployment
Inputs ==
    { [provider |-> p, headers |-> h, azure |-> d] :
        p \in {NoProvider, StaticProvider}, h \in {ClientHeaders}, d \in {NoDeployment} }
    \cup
    { [provider |-> p, headers |-> h, azure |-> d] :
        p \in {AzureProvider}, h \in {ClientHeaders}, d \in Deployments }

(* ------------------------------- state --------------------------------- *)
VARIABLES
    now,             \* Date.now()
    advances,        \* how often the clock moved
    tokenCache,      \* the module's Map: scope -> [token, expiresAt]
    azureCredential, \* the module's credential: null (0) or the n-th object made
    tokenProvider,   \* the module's token provider: null (0) or the n-th one made
    providers,       \* the shared Provider objects of the configuration
    acqSeq,          \* calls of tokenProvider made so far
    acquiredAt,      \* Date.now() of the latest successful acquisition
    pc,              \* where each request is
    input,           \* the request as it arrived
    headers,         \* request.headers
    cached,          \* getAzureToken's local `cached`
    acqOf,           \* the tokenProvider call this request made (0: none)
    inFlightAtCall,  \* the requests awaiting tokenProvider when this one called getAzureToken
    token,           \* what getAzureToken returned to this request
    tokenError,      \* getAzureToken threw to this request
    replyCode,       \* reply.code(...) sent by the middleware (0: none)
    threw,           \* the middleware's promise rejected
    aborted          \* the client went away while the request was awaiting

\* start-up and routing
VARIABLES
    configFile,      \* the file at CONFIG_FILE
    loadState,       \* initConfig has not run / has returned / the process exited
    config,          \* the object initConfig returned
    processEnv,      \* the keys Object.assign copied into process.env
    request,         \* the request handed to the router last
    decision         \* what select() answered for it

routerVars == << configFile, loadState, config, processEnv, request, decision >>

vars == << now, advances, tokenCache, azureCredential, tokenProvider, providers,
           acqSeq, acquiredAt, pc, input, headers, cached, acqOf,
           inFlightAtCall, token, tokenError, replyCode, threw, aborted,
           configFile, loadState, config, processEnv, request, decision >>

reqVars == << pc, input, headers, cached, acqOf, inFlightAtCall, token,
              tokenError, replyCode, threw, aborted >>

\* the token the identity provider issues for the n-th call
IssuedToken(n) == n

\* the credential cache and the requests before anything has happened
CoreInit ==
    /\ now = 0
    /\ advances = 0
    /\ tokenCache = EmptyMap
    /\ azureCredential = 0
    /\ tokenProvider = 0
    /\ providers = LoadedProviders
    /\ acqSeq = 0
    /\ acquiredAt = 0
    /\ pc = [r \in Reqs |-> "idle"]
    /\ input = [r \in Reqs |-> [provider |-> NoProvider, headers |-> NoHeaders, azure |-> NoDeployment]]
    /\ headers = [r \in Reqs |-> NoHeaders]
    /\ cached = [r \in Reqs |-> EmptyMap]
    /\ acqOf = [r \in Reqs |-> 0]
    /\ inFlightAtCall = [r \in Reqs |-> {}]
    /\ token = [r \in Reqs |-> 0]
    /\ tokenError = [r \in Reqs |-> FALSE]
    /\ replyCode = [r \in Reqs |-> 0]
    /\ threw = [r \in Reqs |-> FALSE]
    /\ aborted = [r \in Reqs |-> FALSE]

(* ------------------------- the configuration file ---------------------- *)
\* The strings the code splits are sequences of pieces, so that split(",")
\* is computed: "azure-gpt4,gpt-4" is << "azure-gpt4", ",", "gpt-4" >>.
Comma == ","

\* the `providers` array of the example configuration, two of its entries;
\* an absent auth_type is written "static" as in LoadedProviders
FileProviders ==
    << [ name         |-> AzureProvider,
         api_base_url |-> LoadedProviders[AzureProvider].api_base_url,
         auth_type    |-> "azure",
         api_key      |-> Absent,
         models       |-> << "gpt-4" >> ],
       [ name         |-> StaticProvider,
         api_base_url |-> LoadedProviders[StaticProvider].api_base_url,
         auth_type    |-> "static",
         api_key      |-> << "sk-xxx" >>,
         models       |-> << "google/gemini-2.5-pro-preview",
                             "anthropic/claude-3.5-sonnet" >> ] >>

\* "provider,model" strings a Router entry may hold
RouteA == << "azure-gpt4", Comma, "gpt-4" >>
RouteB == << "openrouter", Comma, "google/gemini-2.5-pro-preview" >>
\* a model its provider does not list
RouteNoModel == << "azure-gpt4", Comma, "gpt-4o" >>
\* a provider the file does not configure
RouteNoProvider == << "azure-gpt35", Comma, "gpt-35-turbo" >>

RouteClasses == {"default", "background", "think", "longContext"}

\* what the file may say for each route class (Absent: the key is missing)
RouteChoices ==
    [ default     |-> {Absent, RouteA, RouteNoModel},
      background  |-> {Absent, RouteB, RouteNoModel},
      think       |-> {Absent, RouteB, RouteNoProvider},
      longContext |-> {Absent, RouteA, RouteB} ]

\* the Router objects: one per choice, holding the keys that are not missing
Routers ==
    { [k \in {c \in RouteClasses : f[c] # Absent} |-> f[k]] :
        f \in { g \in [RouteClasses -> UNION {RouteChoices[c] : c \in RouteClasses}] :
                  \A c \in RouteClasses : g[c] \in RouteChoices[c] } }

\* a parsed document: the array under `providers` or under `Providers`
\* (Absent: the key is missing; no document here has an empty array)
Documents ==
    { [providers |-> FileProviders, Providers |-> Absent, Router |-> rt] : rt \in Routers }
    \cup
    { [providers |-> Absent, Providers |-> FileProviders, Router |-> rt] : rt \in Routers }

NoDocument == [providers |-> Absent, Providers |-> Absent, Router |-> EmptyMap]

\* what fs.readFile and JSON5.parse find at CONFIG_FILE
ConfigFiles ==
    { [readError |-> "ENOENT", wellFormed |-> FALSE, doc |-> NoDocument],
      [readError |-> "EACCES", wellFormed |-> FALSE, doc |-> NoDocument],
      [readError |-> "none", wellFormed |-> FALSE, doc |-> NoDocument] }
    \cup
    { [readError |-> "none", wellFormed |-> TRUE, doc |-> d] : d \in Documents }

\* the example configuration, as the file at CONFIG_FILE
ExampleFile ==
    [ readError  |-> "none",
      wellFormed |-> TRUE,
      doc        |-> [ providers |-> FileProviders,
                       Providers |-> Absent,
                       Router    |-> ("default" :> RouteA) @@ ("background" :> RouteB)
                                     @@ ("think" :> RouteB) @@ ("longContext" :> RouteB) ] ]

\* getAzureToken of the configuration utilities: the token the az CLI printed,
\* or null (Absent) when the command failed
CliTokens == { Absent, << "az-cli-token" >> }

\* the answers typed into the first-run questions
Answers ==
    { [name |-> n, APIKEY |-> << "sk-xxx" >>,
       baseUrl |-> << "https://openrouter.ai/api/v1/chat/completions" >>, model |-> m] :
        n \in {"openrouter", "deepseek"},
        m \in {"deepseek-chat", "anthropic/claude-3.5-sonnet"} }

\* parsedConfig.providers || parsedConfig.Providers
ProvidersOf(doc) == IF doc.providers # Absent THEN doc.providers ELSE doc.Providers

\* lines 165-178: every azure provider gets the CLI token as api_key, when
\* there is one; toks[i] is what the CLI answered for the i-th provider
InjectTokens(doc, toks) ==
    LET inject(ps) ==
            [i \in DOMAIN ps |->
                IF ps[i].auth_type = "azure" /\ toks[i] # Absent
                THEN [ps[i] EXCEPT !.api_key = toks[i]]
                ELSE ps[i]]
    IN  IF doc.providers # Absent
        THEN [doc EXCEPT !.providers = inject(doc.providers)]
        ELSE IF doc.Providers # Absent
        THEN [doc EXCEPT !.Providers = inject(doc.Providers)]
        ELSE doc

\* lines 194-206: the configuration built from the answers
FirstRunConfig(a) ==
    [ providers |-> Absent,
      Providers |-> << [ name         |-> a.name,
                         api_base_url |-> a.baseUrl,
                         auth_type    |-> "static",
                         api_key      |-> a.APIKEY,
                         models       |-> << a.model >> ] >>,
      Router    |-> ("default" :> << a.name, Comma, a.model >>) ]

\* the keys of the object: what Object.assign(process.env, config) copies
KeysOf(doc) ==
    (IF doc.providers # Absent THEN {"providers"} ELSE {})
    \cup (IF doc.Providers # Absent THEN {"Providers"} ELSE {})
    \cup {"Router"}

NoRequest ==
    [ modelField |-> Absent, thinkingRequested |-> FALSE,
      estimatedPromptTokens |-> 0, tools |-> {} ]
NoDecision ==
    [ kind |-> "none", provider |-> Absent, model |-> Absent, routeClass |-> "none" ]

\* initConfig, lines 224-228, over a file that reads and parses: the parsed
\* object, with the tokens injected, is returned as it is
LoadParsed ==
    /\ loadState = "start"
    /\ configFile.readError = "none"
    /\ configFile.wellFormed
    /\ \E toks \in [DOMAIN ProvidersOf(configFile.doc) -> CliTokens] :
          config' = InjectTokens(configFile.doc, toks)
    /\ processEnv' = KeysOf(configFile.doc)
    /\ loadState' = "loaded"
    /\ UNCHANGED << configFile, request, decision >>
    /\ UNCHANGED << now, advances, tokenCache, azureCredential, tokenProvider,
                    providers, acqSeq, acquiredAt, reqVars >>

\* lines 181-186: JSON5.parse threw; process.exit(1)
LoadSyntaxError ==
    /\ loadState = "start"
    /\ configFile.readError = "none"
    /\ ~configFile.wellFormed
    /\ loadState' = "exited"
    /\ UNCHANGED << configFile, config, processEnv, request, decision >>
    /\ UNCHANGED << now, advances, tokenCache, azureCredential, tokenProvider,
                    providers, acqSeq, acquiredAt, reqVars >>

\* lines 187-208: there is no file; the answers make a configuration, which
\* is written to CONFIG_FILE and returned
LoadFirstRun ==
    /\ loadState = "start"
    /\ configFile.readError = "ENOENT"
    /\ \E a \in Answers :
          /\ config' = FirstRunConfig(a)
          /\ configFile' = [readError |-> "none", wellFormed |-> TRUE,
                            doc |-> FirstRunConfig(a)]
          /\ processEnv' = KeysOf(FirstRunConfig(a))
    /\ loadState' = "loaded"
    /\ UNCHANGED << request, decision >>
    /\ UNCHANGED << now, advances, tokenCache, azureCredential, tokenProvider,
                    providers, acqSeq, acquiredAt, reqVars >>

\* lines 209-213: the file cannot be read for another reason; process.exit(1)
LoadReadError ==
    /\ loadState = "start"
    /\ configFile.readError \notin {"none", "ENOENT"}
    /\ loadState' = "exited"
    /\ UNCHANGED << configFile, config, processEnv, request, decision >>
    /\ UNCHANGED << now, advances, tokenCache, azureCredential, tokenProvider,
                    providers, acqSeq, acquiredAt, reqVars >>

(* ------------------------------ the router ------------------------------ *)
\* estimatedPromptTokens above which a request is a long-context request
LongContextThreshold == 60000

\* the model identifiers that mark a background request
BackgroundAliases == { << "claude-3-5-haiku-latest" >> }

\* the requests handed to select()
ModelFields ==
    { Absent,
      << "claude-3-5-haiku-latest" >>,
      << "azure-gpt4", Comma, "gpt-4" >>,
      << "openrouter", Comma, "anthropic/claude-3.5-sonnet" >>,
      << "deepseek", Comma, "deepseek-chat" >>,
      << "azure-gpt4", Comma, "gpt-4o" >>,
      << "azure-gpt4", Comma >>,
      << "azure-gpt4", Comma, "gpt-4", Comma, "gpt-4" >> }

Requests ==
    [ modelField : ModelFields,
      thinkingRequested : BOOLEAN,
      estimatedPromptTokens : {100, LongContextThreshold, LongContextThreshold + 1, 70000},
      tools : { {}, {"web_search"} } ]

\* s.split(","): the pieces between the commas
RECURSIVE Parts(_)
Parts(s) ==
    IF \A i \in 1..Len(s) : s[i] # Comma
    THEN << s >>
    ELSE LET i == CHOOSE j \in 1..Len(s) :
                      s[j] = Comma /\ \A k \in 1..(j - 1) : s[k] # Comma
         IN  << SubSeq(s, 1, i - 1) >> \o Parts(SubSeq(s, i + 1, Len(s)))

\* the field splits into exactly two non-empty parts
IsOverride(field) ==
    /\ Len(Parts(field)) = 2
    /\ Parts(field)[1] # <<>>
    /\ Parts(field)[2] # <<>>

\* ConfigStore.getProvider: the providers of that name (none: the empty set)
getProvider(cfg, name) ==
    { ProvidersOf(cfg)[i] : i \in { j \in DOMAIN ProvidersOf(cfg) :
                                       << ProvidersOf(cfg)[j].name >> = name } }

\* ConfigStore.getRoute: the pair of that class (none: the empty set)
getRoute(cfg, class) ==
    IF class \in DOMAIN cfg.Router THEN { Parts(cfg.Router[class]) } ELSE {}

\* the model is in the provider's models list
HasModel(p, model) == \E i \in DOMAIN p.models : << p.models[i] >> = model

RoutingDecision(p, m, class) ==
    [ kind |-> "ok", provider |-> p, model |-> m, routeClass |-> class ]
RoutingError(e, class) ==
    [ kind |-> e, provider |-> Absent, model |-> Absent, routeClass |-> class ]

\* a slip of the order: the size of the prompt looked at first
ClassifyLongContextFirst(req) ==
    IF req.estimatedPromptTokens > LongContextThreshold THEN "longContext"
    ELSE IF req.thinkingRequested THEN "think"
    ELSE IF req.modelField \in BackgroundAliases THEN "background"
    ELSE "default"

\* a slip of the comparison: the threshold itself counted as exceeding it
ClassifyAtThreshold(req) ==
    IF req.thinkingRequested THEN "think"
    ELSE IF req.estimatedPromptTokens >= LongContextThreshold THEN "longContext"
    ELSE IF req.modelField \in BackgroundAliases THEN "background"
    ELSE "default"

\* steps 2-5 of select(): the route class of a request without override
Classify(req) ==
    IF req.thinkingRequested THEN "think"
    ELSE IF req.estimatedPromptTokens > LongContextThreshold THEN "longContext"
    ELSE IF req.modelField \in BackgroundAliases THEN "background"
    ELSE "default"

\* a slip of the fallback: any configured route taken when default is absent
ResolveAnyRoute(class, cfg) ==
    LET routes == IF getRoute(cfg, class) # {} THEN getRoute(cfg, class)
                  ELSE IF getRoute(cfg, "default") # {} THEN getRoute(cfg, "default")
                  ELSE UNION { getRoute(cfg, c) : c \in RouteClasses }
    IN  IF routes = {} THEN RoutingError("NoRouteConfiguredError", class)
        ELSE LET pair == CHOOSE x \in routes : TRUE
             IN  IF getProvider(cfg, pair[1]) = {}
                 THEN RoutingError("UnknownProviderError", class)
                 ELSE RoutingDecision(pair[1], pair[2], class)

\* the resolution of select(): the class's route, else the default route
Resolve(class, cfg) ==
    LET routes == IF getRoute(cfg, class) # {} THEN getRoute(cfg, class)
                  ELSE getRoute(cfg, "default")
    IN  IF routes = {} THEN RoutingError("NoRouteConfiguredError", class)
        ELSE LET pair == CHOOSE x \in routes : TRUE
             IN  IF getProvider(cfg, pair[1]) = {}
                 THEN RoutingError("UnknownProviderError", class)
                 ELSE RoutingDecision(pair[1], pair[2], class)

\* step 1 of select(): the named provider and model, validated
Override(field, cfg) ==
    LET P == Parts(field)[1]
        M == Parts(field)[2]
    IN  IF getProvider(cfg, P) = {} THEN RoutingError("UnknownProviderError", "default")
        ELSE IF \A p \in getProvider(cfg, P) : ~HasModel(p, M)
        THEN RoutingError("UnknownModelError", "default")
        ELSE RoutingDecision(P, M, "default")

\* a slip of the priority: the override honoured only when not thinking
selectThinkingFirst(req, cfg) ==
    IF req.thinkingRequested THEN Resolve("think", cfg)
    ELSE IF IsOverride(req.modelField) THEN Override(req.modelField, cfg)
    ELSE Resolve(Classify(req), cfg)

\* ModelRouter.select(request, config)
select(req, cfg) ==
    IF IsOverride(req.modelField)
    THEN Override(req.modelField, cfg)
    ELSE Resolve(Classify(req), cfg)

\* A request is routed over the loaded configuration.  select() reads the
\* configuration and changes nothing, so its answers do not depend on the
\* requests routed before: a behaviour follows one request.
Select ==
    /\ loadState = "loaded"
    /\ decision = NoDecision
    /\ \E req \in Requests :
          /\ request' = req
          /\ decision' = select(req, config)
    /\ UNCHANGED << configFile, loadState, config, processEnv >>
    /\ UNCHANGED << now, advances, tokenCache, azureCredential, tokenProvider,
                    providers, acqSeq, acquiredAt, reqVars >>

\* the state the requests are served in: the example configuration is loaded
Init ==
    /\ CoreInit
    /\ configFile = ExampleFile
    /\ loadState = "loaded"
    /\ config = InjectTokens(ExampleFile.doc, [i \in DOMAIN FileProviders |-> << "az-cli-token" >>])
    /\ processEnv = KeysOf(ExampleFile.doc)
    /\ request = NoRequest
    /\ decision = NoDecision

\* the process starts over whatever is at CONFIG_FILE
RouterInit ==
    /\ CoreInit
    /\ configFile \in ConfigFiles
    /\ loadState = "start"
    /\ config = NoDocument
    /\ processEnv = {}
    /\ request = NoRequest
    /\ decision = NoDecision

RouterNext ==
    \/ LoadParsed
    \/ LoadSyntaxError
    \/ LoadFirstRun
    \/ LoadReadError
    \/ Select

RouterSpec == RouterInit /\ [][RouterNext]_vars

(* ---------------------------- getAzureToken ---------------------------- *)
\* a slip of the buffer: ten minutes (600000) written for one
CacheHitTenMinutes(c, t) ==
    /\ AZURE_SCOPE \in DOMAIN c
    /\ c[AZURE_SCOPE].expiresAt > t + 10 * BufferMs

\* a slip of the test: the buffer left out
CacheHitNoBuffer(c, t) ==
    /\ AZURE_SCOPE \in DOMAIN c
    /\ c[AZURE_SCOPE].expiresAt > t

\* line 23: cached && cached.expiresAt > Date.now() + 60000
CacheHit(c, t) ==
    /\ AZURE_SCOPE \in DOMAIN c
    /\ c[AZURE_SCOPE].expiresAt > t + BufferMs

\* a slip of the unit: the lifetime written in seconds (50 * 60)
CacheSetSeconds(c, tok, t) ==
    [k \in (DOMAIN c) \cup {AZURE_SCOPE} |->
        IF k = AZURE_SCOPE THEN [token |-> tok, expiresAt |-> t + 50 * 60] ELSE c[k]]

\* a slip of the sign: Date.now() taken off the lifetime
CacheSetMinusNow(c, tok, t) ==
    [k \in (DOMAIN c) \cup {AZURE_SCOPE} |->
        IF k = AZURE_SCOPE THEN [token |-> tok, expiresAt |-> CacheMs - t] ELSE c[k]]

\* lines 42-45: tokenCache.set(cacheKey, {token, expiresAt: Date.now() + 50 min})
CacheSet(c, tok, t) ==
    [k \in (DOMAIN c) \cup {AZURE_SCOPE} |->
        IF k = AZURE_SCOPE THEN [token |-> tok, expiresAt |-> t + CacheMs] ELSE c[k]]

\* the requests suspended at `await tokenProvider(...)`
Awaiting == {r \in Reqs : pc[r] = "awaiting"}


\* a slip: the test of line 12 left out, a new pair made at every call
initializeAzureAuthAlways ==
    /\ azureCredential' = azureCredential + 1
    /\ tokenProvider' = tokenProvider + 1

\* lines 11-16: initializeAzureAuth creates the credential and the provider once
initializeAzureAuth ==
    IF azureCredential = 0
    THEN /\ azureCredential' = azureCredential + 1
         /\ tokenProvider' = tokenProvider + 1
    ELSE UNCHANGED << azureCredential, tokenProvider >>

\* No continuation is waiting in the microtask queue.  The queue is drained
\* before the event loop runs its next callback (an arriving request, an
\* answer of the identity provider, a closed connection).
Drained == \A r \in Reqs : pc[r] \notin {"resolved", "rejected"}

\* a request arrives: arrival order is the order of the request numbers
Arrives(r, in) ==
    /\ Drained
    /\ pc[r] = "idle"
    /\ \A q \in Reqs : q < r => pc[q] # "idle"
    /\ input' = [input EXCEPT ![r] = in]
    /\ headers' = [headers EXCEPT ![r] = in.headers]

\* a slip of the test: every request that has a provider is taken
IsAzureAnyProvider(p) == p # NoProvider

\* lines 60-64: the selected provider is absent or is not an azure provider
IsAzure(p) == p # NoProvider /\ providers[p].auth_type = "azure"

\* azureAuthMiddleware, lines 55-64: nothing to do for this request
StartSkip(r) ==
    \E in \in Inputs :
        /\ Arrives(r, in)
        /\ ~IsAzure(in.provider)
        /\ pc' = [pc EXCEPT ![r] = "done"]
        /\ UNCHANGED << routerVars, now, advances, tokenCache, azureCredential, tokenProvider,
                        providers, acqSeq, acquiredAt, cached, acqOf,
                        inFlightAtCall, token, tokenError, replyCode, threw, aborted >>

\* azureAuthMiddleware line 67 into getAzureToken lines 19-26: the cached
\* token is returned; the middleware resumes in a later turn of the loop
StartCached(r) ==
    \E in \in Inputs :
        /\ Arrives(r, in)
        /\ IsAzure(in.provider)
        /\ CacheHit(tokenCache, now)
        /\ cached' = [cached EXCEPT ![r] = tokenCache]
        /\ inFlightAtCall' = [inFlightAtCall EXCEPT ![r] = Awaiting]
        /\ token' = [token EXCEPT ![r] = tokenCache[AZURE_SCOPE].token]
        /\ pc' = [pc EXCEPT ![r] = "resolved"]
        /\ UNCHANGED << routerVars, now, advances, tokenCache, azureCredential, tokenProvider,
                        providers, acqSeq, acquiredAt, acqOf, tokenError,
                        replyCode, threw, aborted >>

\* a slip: the entry that is no longer usable is deleted before the call
StartAcquireDropsStale(r) ==
    \E in \in Inputs :
        /\ Arrives(r, in)
        /\ IsAzure(in.provider)
        /\ ~CacheHit(tokenCache, now)
        /\ cached' = [cached EXCEPT ![r] = tokenCache]
        /\ tokenCache' = EmptyMap
        /\ inFlightAtCall' = [inFlightAtCall EXCEPT ![r] = Awaiting]
        /\ initializeAzureAuth
        /\ acqSeq' = acqSeq + 1
        /\ acqOf' = [acqOf EXCEPT ![r] = acqSeq + 1]
        /\ pc' = [pc EXCEPT ![r] = "awaiting"]
        /\ UNCHANGED << routerVars, now, advances, providers, acquiredAt,
                        token, tokenError, replyCode, threw, aborted >>

\* azureAuthMiddleware line 67 into getAzureToken lines 19-37: no usable
\* entry, so tokenProvider is called and the request is suspended on it
StartAcquire(r) ==
    \E in \in Inputs :
        /\ Arrives(r, in)
        /\ IsAzure(in.provider)
        /\ ~CacheHit(tokenCache, now)
        /\ cached' = [cached EXCEPT ![r] = tokenCache]
        /\ inFlightAtCall' = [inFlightAtCall EXCEPT ![r] = Awaiting]
        /\ initializeAzureAuth
        /\ acqSeq' = acqSeq + 1
        /\ acqOf' = [acqOf EXCEPT ![r] = acqSeq + 1]
        /\ pc' = [pc EXCEPT ![r] = "awaiting"]
        /\ UNCHANGED << routerVars, now, advances, tokenCache, providers, acquiredAt,
                        token, tokenError, replyCode, threw, aborted >>

\* a slip: the token of an aborted request is returned but not stored
AcquireOkUnlessAborted(r) ==
    /\ Drained
    /\ pc[r] = "awaiting"
    /\ tokenCache' = IF aborted[r] THEN tokenCache
                                   ELSE CacheSet(tokenCache, IssuedToken(acqOf[r]), now)
    /\ acquiredAt' = IF aborted[r] THEN acquiredAt ELSE now
    /\ token' = [token EXCEPT ![r] = IssuedToken(acqOf[r])]
    /\ pc' = [pc EXCEPT ![r] = "resolved"]
    /\ UNCHANGED << routerVars, now, advances, azureCredential, tokenProvider, providers,
                    acqSeq, input, headers, cached, acqOf, inFlightAtCall,
                    tokenError, replyCode, threw, aborted >>

\* getAzureToken lines 34-47: the identity provider answers with a token; it
\* is stored and returned
AcquireOk(r) ==
    /\ Drained
    /\ pc[r] = "awaiting"
    /\ tokenCache' = CacheSet(tokenCache, IssuedToken(acqOf[r]), now)
    /\ acquiredAt' = now
    /\ token' = [token EXCEPT ![r] = IssuedToken(acqOf[r])]
    /\ pc' = [pc EXCEPT ![r] = "resolved"]
    /\ UNCHANGED << routerVars, now, advances, azureCredential, tokenProvider, providers,
                    acqSeq, input, headers, cached, acqOf, inFlightAtCall,
                    tokenError, replyCode, threw, aborted >>

\* a slip: the failed call also deletes the entry of the scope
AcquireFailEvicts(r) ==
    /\ Drained
    /\ pc[r] = "awaiting"
    /\ tokenCache' = EmptyMap
    /\ tokenError' = [tokenError EXCEPT ![r] = TRUE]
    /\ pc' = [pc EXCEPT ![r] = "rejected"]
    /\ UNCHANGED << routerVars, now, advances, azureCredential, tokenProvider,
                    providers, acqSeq, acquiredAt, input, headers, cached,
                    acqOf, inFlightAtCall, token, replyCode, threw, aborted >>

\* getAzureToken lines 48-52: the identity provider answers with an error; it
\* is logged and thrown again
AcquireFail(r) ==
    /\ Drained
    /\ pc[r] = "awaiting"
    /\ tokenError' = [tokenError EXCEPT ![r] = TRUE]
    /\ pc' = [pc EXCEPT ![r] = "rejected"]
    /\ UNCHANGED << routerVars, now, advances, tokenCache, azureCredential, tokenProvider,
                    providers, acqSeq, acquiredAt, input, headers, cached,
                    acqOf, inFlightAtCall, token, replyCode, threw, aborted >>

(* ------------------------- azureAuthMiddleware ------------------------- *)
\* a slip: only one of the two key headers is deleted
AuthHeadersKeepsApiKey(h, tok) ==
    [h EXCEPT !["authorization"] = <<"Bearer", tok>>,
              !["x-api-key"] = Absent]

\* lines 68-72: the bearer header is set, the key headers are deleted
AuthHeaders(h, tok) ==
    [h EXCEPT !["authorization"] = <<"Bearer", tok>>,
              !["x-api-key"] = Absent,
              !["api-key"] = Absent]

\* a slip: the URL taken whole, its path not cut off
SplitBaseWhole(url) == url

\* line 82: provider.api_base_url.split('/openai/')[0]
RECURSIVE SplitBase(_)
SplitBase(url) ==
    IF url = <<>> \/ Head(url) = "/openai/"
    THEN <<>>
    ELSE <<Head(url)>> \o SplitBase(Tail(url))

\* line 85: the URL built from the base, the deployment and the API version
DynamicUrl(base, az) ==
    base \o <<"/openai/", "deployments/">> \o az.deployment
         \o <<"/chat/completions?api-version=">> \o az.version

\* lines 74-91: what the middleware leaves of the Provider object
PreparedProvider(p, az) ==
    [ auth_type    |-> p.auth_type,
      api_key      |-> Absent,
      api_base_url |-> IF az.deployment # Absent /\ az.version # Absent
                       THEN DynamicUrl(SplitBase(p.api_base_url), az)
                       ELSE p.api_base_url ]

\* lines 67-93: getAzureToken gave a token and the middleware goes on
FinishOk(r) ==
    /\ pc[r] = "resolved"
    /\ headers' = [headers EXCEPT ![r] = AuthHeaders(headers[r], token[r])]
    /\ providers' = [providers EXCEPT ![input[r].provider] =
                        PreparedProvider(providers[input[r].provider], input[r].azure)]
    /\ pc' = [pc EXCEPT ![r] = "done"]
    /\ UNCHANGED << routerVars, now, advances, tokenCache, azureCredential, tokenProvider,
                    acqSeq, acquiredAt, input, cached, acqOf,
                    inFlightAtCall, token, tokenError, replyCode, threw, aborted >>

\* a slip: the catch block logs and throws again instead of answering
FinishErrorRethrows(r) ==
    /\ pc[r] = "rejected"
    /\ threw' = [threw EXCEPT ![r] = TRUE]
    /\ pc' = [pc EXCEPT ![r] = "done"]
    /\ UNCHANGED << routerVars, now, advances, tokenCache, azureCredential, tokenProvider,
                    providers, acqSeq, acquiredAt, input, headers, cached,
                    acqOf, inFlightAtCall, token, tokenError, replyCode, aborted >>

\* a slip: the key headers deleted before the answer is sent
FinishErrorStripsKeys(r) ==
    /\ pc[r] = "rejected"
    /\ headers' = [headers EXCEPT ![r]["x-api-key"] = Absent, ![r]["api-key"] = Absent]
    /\ replyCode' = [replyCode EXCEPT ![r] = 500]
    /\ pc' = [pc EXCEPT ![r] = "done"]
    /\ UNCHANGED << routerVars, now, advances, tokenCache, azureCredential, tokenProvider,
                    providers, acqSeq, acquiredAt, input, cached,
                    acqOf, inFlightAtCall, token, tokenError, threw, aborted >>

\* lines 94-97: getAzureToken threw and the middleware answers 500
FinishError(r) ==
    /\ pc[r] = "rejected"
    /\ replyCode' = [replyCode EXCEPT ![r] = 500]
    /\ pc' = [pc EXCEPT ![r] = "done"]
    /\ UNCHANGED << routerVars, now, advances, tokenCache, azureCredential, tokenProvider,
                    providers, acqSeq, acquiredAt, input, headers, cached,
                    acqOf, inFlightAtCall, token, tokenError, threw, aborted >>

(* ----------------------------- environment ----------------------------- *)
\* the client of a request goes away while its token is being acquired; the
\* call of tokenProvider carries no abort signal and nothing listens
Abort(r) ==
    /\ Drained
    /\ pc[r] = "awaiting"
    /\ ~aborted[r]
    /\ aborted' = [aborted EXCEPT ![r] = TRUE]
    /\ UNCHANGED << routerVars, now, advances, tokenCache, azureCredential, tokenProvider,
                    providers, acqSeq, acquiredAt, pc, input, headers,
                    cached, acqOf, inFlightAtCall, token, tokenError, replyCode, threw >>

\* time passes between two turns of the event loop
Advance ==
    \E d \in Steps :
        /\ Drained
        /\ advances < MaxAdvance
        /\ now' = now + d
        /\ advances' = advances + 1
        /\ UNCHANGED << tokenCache, azureCredential, tokenProvider, providers,
                        acqSeq, acquiredAt >>
        /\ UNCHANGED << reqVars, routerVars >>

Next ==
    \/ \E r \in Reqs : StartSkip(r)
    \/ \E r \in Reqs : StartCached(r)
    \/ \E r \in Reqs : StartAcquire(r)
    \/ \E r \in Reqs : AcquireOk(r)
    \/ \E r \in Reqs : AcquireFail(r)
    \/ \E r \in Reqs : FinishOk(r)
    \/ \E r \in Reqs : FinishError(r)
    \/ \E r \in Reqs : Abort(r)
    \/ Advance

Spec == Init /\ [][Next]_vars

\* Liveness is checked with the event loop's own guarantee only: a
\* continuation in the microtask queue is run.  Nothing makes the identity
\* provider answer, and nothing makes a client send a request.
FairSpec == Spec /\ \A r \in Reqs : WF_vars(FinishOk(r) \/ FinishError(r))

(* ------------------------- vocabulary of the claims -------------------- *)
\* the spec's figures, written as the spec writes them
SixtySecondsMs == 60 * 1000
FortyNineMinutesMs == 49 * 60 * 1000
FiftyMinutesMs == 50 * 60 * 1000

HasEntry(c) == AZURE_SCOPE \in DOMAIN c

\* this step is request q calling getToken
Calls(q) == pc[q] = "idle" /\ pc'[q] \in {"awaiting", "resolved"}

\* getToken has returned a token to request r
GotToken(r) == pc[r] = "resolved" \/ (pc[r] = "done" /\ token[r] # 0)

\* the calls of requests r and q overlapped: one was awaiting its token when
\* the other was made
Overlap(r, q) == r \in inFlightAtCall[q] \/ q \in inFlightAtCall[r]

(* C1: two concurrent getToken calls issued while the cache is Empty make  *)
(* exactly one underlying acquisition call, and both callers receive the   *)
(* same token.                                                              *)
C1_OneAcquisitionForTwoCallers ==
    \A r, q \in Reqs :
        ( /\ r # q
          /\ acqOf[r] # 0 /\ acqOf[q] # 0
          /\ ~HasEntry(cached[r]) /\ ~HasEntry(cached[q])
          /\ Overlap(r, q) )
        => /\ acqOf[r] = acqOf[q]
           /\ (GotToken(r) /\ GotToken(q) => token[r] = token[q])

(* C2: in every reachable state at most one token acquisition is in flight *)
(* for the scope, whatever the cache held when the callers arrived.        *)
C2_AtMostOneInFlight ==
    Cardinality({acqOf[r] : r \in Awaiting}) <= 1

\* the call whose acquisition wrote the entry that is in the cache now
Acquired(r, c) ==
    /\ acqOf[r] # 0
    /\ GotToken(r)
    /\ HasEntry(c)
    /\ c[AZURE_SCOPE].token = IssuedToken(acqOf[r])

(* C3: a getToken call made less than 49 minutes after a successful        *)
(* acquisition is served from the cache: it makes no acquisition call, it  *)
(* leaves the cache alone, and it returns the very token that was returned *)
(* to the call that made the acquisition.                                  *)
C3_SecondCallServedFromCache ==
    [][ \A q \in Reqs :
          ( /\ Calls(q)
            /\ HasEntry(tokenCache)
            /\ now - acquiredAt < FortyNineMinutesMs )
          => /\ pc'[q] = "resolved"
             /\ acqSeq' = acqSeq
             /\ acqOf'[q] = 0
             /\ tokenCache' = tokenCache
             /\ \E r \in Reqs \ {q} : Acquired(r, tokenCache) /\ token'[q] = token[r]
      ]_vars

\* the second call arrives in the last millisecond of the 49 minutes
C3_Witness ==
    \E q \in Reqs :
        /\ pc[q] = "resolved"
        /\ acqOf[q] = 0
        /\ acqSeq = 1
        /\ now - acquiredAt = FortyNineMinutesMs - 1
        /\ \E r \in Reqs \ {q} : Acquired(r, tokenCache) /\ token[q] = token[r]

(* C4: a getToken call made when the cached token's expiresAt is less than *)
(* 60 seconds away starts a new acquisition, and what it returns is the    *)
(* token of that acquisition, never the cached one.                        *)
C4_StaleTriggersAcquisition ==
    /\ [][ \A q \in Reqs :
             ( /\ Calls(q)
               /\ HasEntry(tokenCache)
               /\ tokenCache[AZURE_SCOPE].expiresAt - now < SixtySecondsMs )
             => /\ pc'[q] = "awaiting"
                /\ acqSeq' = acqSeq + 1
                /\ acqOf'[q] = acqSeq'
                /\ cached'[q] = tokenCache
         ]_vars
    /\ [] ( \A q \in Reqs :
              ( HasEntry(cached[q]) /\ acqOf[q] # 0 )
              => /\ pc[q] \in {"awaiting", "resolved", "rejected", "done"}
                 /\ (GotToken(q) =>
                        /\ token[q] = IssuedToken(acqOf[q])
                        /\ token[q] # cached[q][AZURE_SCOPE].token) )

\* the call found an entry with 59.999 seconds left and has its new token
C4_Witness ==
    \E q \in Reqs :
        /\ pc[q] = "resolved"
        /\ acqOf[q] # 0
        /\ HasEntry(cached[q])
        /\ cached[q][AZURE_SCOPE].expiresAt - now = SixtySecondsMs - 1
        /\ token[q] = IssuedToken(acqOf[q])
        /\ tokenCache[AZURE_SCOPE].token = token[q]

\* the spec's Valid: now + safetyMargin(60s) < expiresAt
Valid(c, t) == HasEntry(c) /\ t + SixtySecondsMs < c[AZURE_SCOPE].expiresAt

\* no other call overlapped the call of request r
Alone(r) == \A q \in Reqs \ {r} : ~Overlap(r, q)

(* C5, as the spec states it: after a token acquisition fails the scope    *)
(* has no cache entry (it is Empty), also when no other call was under way *)
(* at the time.                                                            *)
C5_FailureLeavesScopeEmpty ==
    \A r \in Reqs :
        (pc[r] = "rejected" /\ Alone(r)) => ~HasEntry(tokenCache)

(* C5, amended: a failed acquisition leaves the cache exactly as it was    *)
(* (an Empty scope stays Empty, an entry that was there stays), and the    *)
(* failure is not cached: a call that finds no Valid entry starts an       *)
(* acquisition of its own, and only a call whose own acquisition failed    *)
(* gets an error.                                                          *)
C5_FailureIsNotCached ==
    /\ [][ \A r \in Reqs :
             (pc[r] = "awaiting" /\ pc'[r] = "rejected")
             => /\ tokenCache' = tokenCache
                /\ acqSeq' = acqSeq
         ]_vars
    /\ [][ \A q \in Reqs :
             (Calls(q) /\ ~Valid(tokenCache, now))
             => /\ pc'[q] = "awaiting"
                /\ acqSeq' = acqSeq + 1
                /\ acqOf'[q] = acqSeq'
         ]_vars
    /\ [] ( \A r \in Reqs :
              (tokenError[r] \/ pc[r] = "rejected" \/ replyCode[r] # 0)
              => (acqOf[r] # 0 /\ token[r] = 0) )

\* a refresh of an existing entry failed, alone, and the entry is still there
C5_Witness ==
    \E r \in Reqs :
        /\ pc[r] = "rejected"
        /\ Alone(r)
        /\ HasEntry(cached[r])
        /\ tokenCache = cached[r]


(* C6: preparing a request never changes the shared Provider objects:     *)
(* every field of every Provider is what the configuration load made it.  *)
C6_ProvidersAreNeverMutated ==
    providers = LoadedProviders

(* C7: when the middleware has completed for an azure provider without    *)
(* answering an error, the request carries Authorization "Bearer <token>" *)
(* with the token getToken returned, and neither x-api-key nor api-key.   *)
C7_BearerHeaderAndNoKeyHeaders ==
    \A r \in Reqs :
        ( /\ pc[r] = "done"
          /\ IsAzure(input[r].provider)
          /\ replyCode[r] = 0 )
        => /\ token[r] # 0
           /\ headers[r]["authorization"] = <<"Bearer", token[r]>>
           /\ headers[r]["x-api-key"] = Absent
           /\ headers[r]["api-key"] = Absent
           /\ headers[r]["content-type"] = input[r].headers["content-type"]

\* a request that came with the client's key headers has been prepared
C7_Witness ==
    \E r \in Reqs :
        /\ pc[r] = "done"
        /\ IsAzure(input[r].provider)
        /\ replyCode[r] = 0
        /\ input[r].headers["x-api-key"] # Absent
        /\ input[r].headers["api-key"] # Absent
        /\ input[r].headers["authorization"] # Absent
        /\ headers[r]["authorization"] = <<"Bearer", token[r]>>

\* the next request to arrive, if there is one left
NextToArrive(q) ==
    /\ pc[q] = "idle"
    /\ \A p \in Reqs : p < q => pc[p] # "idle"

(* C8: a failed token acquisition ends the middleware with the answer 500 *)
(* for that request; the middleware does not throw, and the next request  *)
(* is still taken.                                                        *)
C8_FailureIsAnswered500 ==
    \A r \in Reqs :
        (tokenError[r] /\ pc[r] = "done")
        => /\ replyCode[r] = 500
           /\ ~threw[r]
           /\ \A q \in Reqs :
                (NextToArrive(q) /\ Drained) =>
                    /\ ENABLED StartSkip(q)
                    /\ ENABLED (StartCached(q) \/ StartAcquire(q))

\* after a request was answered 500, a later request got its token
C8_Witness ==
    \E r, q \in Reqs :
        /\ tokenError[r] /\ pc[r] = "done" /\ replyCode[r] = 500
        /\ q > r
        /\ acqOf[q] > acqOf[r]
        /\ pc[q] = "done" /\ replyCode[q] = 0
        /\ headers[q]["authorization"] = <<"Bearer", token[q]>>

(* C9: every getToken call that waits for the identity provider at some   *)
(* time stops waiting: it returns a token or fails, also when the         *)
(* identity provider never answers.                                       *)
C9_EveryCallSettles ==
    \A r \in Reqs : (pc[r] = "awaiting") ~> (pc[r] # "awaiting")

(* C10: when the request that started an acquisition is aborted while it  *)
(* is in flight, the acquisition can still complete, and when it succeeds *)
(* its token is stored with the full lifetime, so that a later call made  *)
(* while that entry is Valid is served from the cache with no acquisition.*)
C10_AbortedAcquisitionFillsCache ==
    /\ [] ( \A r \in Reqs :
              (aborted[r] /\ pc[r] = "awaiting" /\ Drained) => ENABLED AcquireOk(r) )
    /\ [][ \A r \in Reqs :
             (aborted[r] /\ pc[r] = "awaiting" /\ pc'[r] = "resolved")
             => /\ HasEntry(tokenCache')
                /\ tokenCache'[AZURE_SCOPE] =
                      [token |-> token'[r], expiresAt |-> now + FiftyMinutesMs]
                /\ token'[r] = IssuedToken(acqOf[r])
         ]_vars
    /\ [][ \A q \in Reqs :
             ( /\ Calls(q)
               /\ Valid(tokenCache, now)
               /\ \E r \in Reqs : aborted[r] /\ Acquired(r, tokenCache) )
             => /\ pc'[q] = "resolved"
                /\ acqSeq' = acqSeq
                /\ token'[q] = tokenCache[AZURE_SCOPE].token
         ]_vars

\* a later call was served the token of an aborted request's acquisition
C10_Witness ==
    \E r, q \in Reqs :
        /\ aborted[r]
        /\ acqOf[r] # 0 /\ GotToken(r)
        /\ q > r
        /\ acqOf[q] = 0
        /\ pc[q] = "resolved"
        /\ acqSeq = 1
        /\ token[q] = IssuedToken(acqOf[r])

(* C17: when a token acquisition fails while several getToken callers    *)
(* are waiting, every one of those callers is waiting on that attempt and *)
(* so receives its error.                                                 *)
C17_WaitersShareTheFailedAttempt ==
    \A r, q \in Reqs :
        (pc[r] = "rejected" /\ pc[q] = "awaiting") => acqOf[q] = acqOf[r]

(* C18: the cache never holds the token of an acquisition that lost a     *)
(* race: no acquisition that was started after the one whose token is in  *)
(* the cache has completed successfully (its entry would have been        *)
(* overwritten by the result of an acquisition started before it).        *)
C18_CacheHoldsLatestStarted ==
    \A w, r \in Reqs :
        ( /\ Acquired(w, tokenCache)
          /\ acqOf[r] # 0 /\ GotToken(r) )
        => acqOf[r] <= acqOf[w]

\* the sequence `part` occurs in the sequence `url`
Embeds(url, part) ==
    \E i \in 1..(Len(url) - Len(part) + 1) :
        SubSeq(url, i, i + Len(part) - 1) = part

\* request r has been prepared for an azure deployment; the transport layer
\* reads the provider's URL when it dispatches the request, some time later
PreparedFor(r) ==
    /\ pc[r] = "done"
    /\ IsAzure(input[r].provider)
    /\ replyCode[r] = 0
    /\ input[r].azure.deployment # Absent
    /\ input[r].azure.version # Absent

(* C19: for requests handled concurrently for the same azure provider,    *)
(* the endpoint URL of a prepared request embeds that request's own       *)
(* deployment id and API version for as long as it is not dispatched.     *)
C19_UrlEmbedsOwnDeployment ==
    \A r \in Reqs :
        (PreparedFor(r) /\ \E q \in Reqs \ {r} : Overlap(r, q))
        => /\ Embeds(providers[input[r].provider].api_base_url,
                     <<"deployments/">> \o input[r].azure.deployment)
           /\ Embeds(providers[input[r].provider].api_base_url,
                     <<"/chat/completions?api-version=">> \o input[r].azure.version)

(* C20: a successful acquisition leaves in the cache exactly the acquired *)
(* token with expiresAt = completion time + 50 minutes; the scope is then *)
(* Valid, and a call made at that same time is served that token with no  *)
(* new acquisition.                                                       *)
C20_AcquisitionStoresValidEntry ==
    /\ [][ \A r \in Reqs :
             (pc[r] = "awaiting" /\ pc'[r] = "resolved")
             => /\ tokenCache' = (AZURE_SCOPE :>
                      [token |-> token'[r], expiresAt |-> now + FiftyMinutesMs])
                /\ token'[r] = IssuedToken(acqOf[r])
                /\ Valid(tokenCache', now')
         ]_vars
    /\ [][ \A q \in Reqs :
             (Calls(q) /\ HasEntry(tokenCache) /\ now = acquiredAt)
             => /\ pc'[q] = "resolved"
                /\ acqSeq' = acqSeq
                /\ token'[q] = tokenCache[AZURE_SCOPE].token
                /\ \E r \in Reqs \ {q} : Acquired(r, tokenCache)
         ]_vars

\* a call made at the very time of the acquisition was served its token
C20_Witness ==
    \E r, q \in Reqs :
        /\ r # q
        /\ Acquired(r, tokenCache)
        /\ tokenCache[AZURE_SCOPE].expiresAt = now + FiftyMinutesMs
        /\ now > 0
        /\ pc[q] = "resolved" /\ acqOf[q] = 0
        /\ token[q] = token[r]

(* --------------------- vocabulary of the routing claims ---------------- *)
SixtyThousandTokens == 60 * 1000

\* select() has answered the request
Routed == decision.kind # "none"

\* the request names no provider and model of its own
NoOverride == ~IsOverride(request.modelField)

\* the loaded routing table has an entry for the class
HasRoute(class) == class \in DOMAIN config.Router

\* the provider and the model a Router entry names
RoutePair(class) == Parts(config.Router[class])

\* a provider of that name is configured
Configured(name) ==
    \E i \in DOMAIN ProvidersOf(config) : << ProvidersOf(config)[i].name >> = name

\* a provider of that name is configured and lists the model
Lists(name, model) ==
    \E i \in DOMAIN ProvidersOf(config) :
        /\ << ProvidersOf(config)[i].name >> = name
        /\ \E j \in DOMAIN ProvidersOf(config)[i].models :
              << ProvidersOf(config)[i].models[j] >> = model

\* the decision is the provider and the model of that Router entry
AnswersRoute(class) ==
    /\ decision.kind = "ok"
    /\ decision.provider = RoutePair(class)[1]
    /\ decision.model = RoutePair(class)[2]

(* C11: a request with thinking = true and no direct override is classified  *)
(* think and answered with the think route, whatever its estimated prompt    *)
(* tokens: thinking takes precedence over long context.                      *)
C11_ThinkingBeatsLongContext ==
    (Routed /\ NoOverride /\ request.thinkingRequested)
    => /\ decision.routeClass = "think"
       /\ (HasRoute("think") /\ Configured(RoutePair("think")[1]))
          => AnswersRoute("think")

C11_Witness ==
    /\ Routed /\ NoOverride /\ request.thinkingRequested
    /\ request.estimatedPromptTokens > SixtyThousandTokens
    /\ HasRoute("think") /\ HasRoute("longContext")
    /\ RoutePair("think") # RoutePair("longContext")
    /\ AnswersRoute("think")

(* C12: a request whose model field is "P,M", P a configured provider that   *)
(* lists M, is answered with provider P and model M whatever its thinking    *)
(* flag, estimated prompt tokens and tools are.                              *)
C12_ValidOverrideIsHonoured ==
    ( /\ Routed
      /\ IsOverride(request.modelField)
      /\ Lists(Parts(request.modelField)[1], Parts(request.modelField)[2]) )
    => /\ decision.kind = "ok"
       /\ decision.provider = Parts(request.modelField)[1]
       /\ decision.model = Parts(request.modelField)[2]

C12_Witness ==
    /\ Routed
    /\ IsOverride(request.modelField)
    /\ request.thinkingRequested
    /\ request.estimatedPromptTokens > SixtyThousandTokens
    /\ request.tools # {}
    /\ HasRoute("think")
    /\ RoutePair("think") # Parts(request.modelField)
    /\ decision.kind = "ok"
    /\ << decision.provider, decision.model >> = Parts(request.modelField)

(* C13: a request with no override and no thinking flag is classified        *)
(* longContext, and answered with the longContext route, when its estimated  *)
(* prompt tokens exceed 60,000; at or below 60,000 it is not classified      *)
(* longContext.                                                              *)
C13_LongContextAboveThreshold ==
    (Routed /\ NoOverride /\ ~request.thinkingRequested)
    => /\ request.estimatedPromptTokens > SixtyThousandTokens
          => /\ decision.routeClass = "longContext"
             /\ (HasRoute("longContext") /\ Configured(RoutePair("longContext")[1]))
                => AnswersRoute("longContext")
       /\ request.estimatedPromptTokens <= SixtyThousandTokens
          => decision.routeClass # "longContext"

C13_Witness ==
    /\ Routed /\ NoOverride /\ ~request.thinkingRequested
    /\ request.estimatedPromptTokens = 70000
    /\ HasRoute("longContext") /\ HasRoute("default")
    /\ RoutePair("longContext") # RoutePair("default")
    /\ AnswersRoute("longContext")

(* C14: when the routing table has no entry for the class of the request,    *)
(* the request is resolved through the default entry; when that is absent    *)
(* too, select() fails with NoRouteConfiguredError and gives no decision.    *)
C14_FallsBackToDefaultOrFails ==
    (Routed /\ NoOverride /\ ~HasRoute(decision.routeClass))
    => IF HasRoute("default")
       THEN /\ Configured(RoutePair("default")[1]) => AnswersRoute("default")
            /\ ~Configured(RoutePair("default")[1]) => decision.kind = "UnknownProviderError"
       ELSE decision.kind = "NoRouteConfiguredError"

C14_Witness ==
    /\ Routed /\ NoOverride
    /\ ~HasRoute(decision.routeClass)
    /\ ~HasRoute("default")
    /\ DOMAIN config.Router # {}
    /\ decision.kind = "NoRouteConfiguredError"

(* C15: loading a configuration file that has no default Router entry never  *)
(* returns a configuration: initConfig returns only configurations with a    *)
(* default route.                                                            *)
C15_MissingDefaultIsRejected ==
    loadState = "loaded" => HasRoute("default")

(* C16: every pair in the routing table of a loaded configuration names a    *)
(* configured provider that lists the model; a file with any other Router    *)
(* entry is not loaded.                                                      *)
C16_LoadedRoutesResolve ==
    loadState = "loaded"
    => \A c \in DOMAIN config.Router : Lists(RoutePair(c)[1], RoutePair(c)[2])

(* ------------------ vocabulary of the remaining claims ----------------- *)
\* the provider is absent or is not an azure provider
StaticOrAbsent(p) == p = NoProvider \/ providers[p].auth_type # "azure"

\* this step starts the middleware for request r
Enters(r) == pc[r] = "idle" /\ pc'[r] # "idle"

\* this step is on the failure path of request r: getAzureToken throws, or
\* the middleware's catch block runs
FailureStep(r) ==
    \/ pc[r] = "awaiting" /\ pc'[r] = "rejected"
    \/ pc[r] = "rejected" /\ pc'[r] = "done"

\* this step ends a successful preparation of request r
Prepares(r) == pc[r] = "resolved" /\ pc'[r] = "done"

HasDeployment(az) == az.deployment # Absent /\ az.version # Absent

\* the configured URL of the azure provider up to its first '/openai/'
ResourceBase == << "https://your-resource-name.openai.azure.com" >>

\* base + '/openai/deployments/' + d + '/chat/completions?api-version=' + v
UrlFor(az) ==
    ResourceBase \o << "/openai/", "deployments/" >> \o az.deployment
                 \o << "/chat/completions?api-version=" >> \o az.version

(* C21: a cache entry is never destroyed: once the scope has an entry it    *)
(* has one in every later state, also after a refresh has failed.           *)
C21_EntriesAreNeverDestroyed ==
    [][ HasEntry(tokenCache) => HasEntry(tokenCache') ]_vars

C21_Witness ==
    \E r \in Reqs :
        /\ pc[r] = "done"
        /\ tokenError[r]
        /\ replyCode[r] = 500
        /\ HasEntry(cached[r])
        /\ HasEntry(tokenCache)

(* C22: preparing a request whose provider is absent or is not an azure     *)
(* provider calls no token provider, creates no credential and neither      *)
(* reads nor writes the token cache: the middleware returns at once.        *)
C22_StaticRequestsLeaveCacheAlone ==
    [][ \A r \in Reqs :
          (Enters(r) /\ StaticOrAbsent(input'[r].provider))
          => /\ pc'[r] = "done"
             /\ acqSeq' = acqSeq
             /\ acqOf'[r] = 0
             /\ azureCredential' = azureCredential
             /\ tokenProvider' = tokenProvider
             /\ tokenCache' = tokenCache
             /\ cached'[r] = EmptyMap
             /\ token'[r] = 0 ]_vars

C22_Witness ==
    \E r, q \in Reqs :
        /\ pc[r] = "done"
        /\ input[r].provider = StaticProvider
        /\ acqOf[r] = 0
        /\ cached[r] = EmptyMap
        /\ Acquired(q, tokenCache)
        /\ acqSeq = 1

(* C23: when the acquisition of the token fails, the middleware leaves the  *)
(* request's headers as they arrived (no authorization header, the key      *)
(* headers kept) and changes neither the providers nor the token cache.     *)
C23_FailureChangesNothing ==
    [][ \A r \in Reqs :
          FailureStep(r)
          => /\ headers'[r] = input[r].headers
             /\ headers'[r]["authorization"] = ClientHeaders["authorization"]
             /\ headers'[r]["x-api-key"] # Absent
             /\ headers'[r]["api-key"] # Absent
             /\ providers' = providers
             /\ tokenCache' = tokenCache ]_vars

C23_Witness ==
    \E r \in Reqs :
        /\ pc[r] = "done"
        /\ replyCode[r] = 500
        /\ HasDeployment(input[r].azure)
        /\ headers[r] = ClientHeaders
        /\ providers = LoadedProviders
        /\ tokenCache = EmptyMap

(* C24: the rewrite of the URL does not accumulate: a successful            *)
(* preparation with deployment d and version v leaves the provider's URL    *)
(* equal to base/openai/deployments/d/chat/completions?api-version=v, base  *)
(* being the configured URL up to its first '/openai/', whatever            *)
(* preparations came before; one without deployment leaves the URL alone.   *)
C24_RewriteDoesNotAccumulate ==
    [][ \A r \in Reqs :
          Prepares(r)
          => IF HasDeployment(input[r].azure)
             THEN providers'[input[r].provider].api_base_url = UrlFor(input[r].azure)
             ELSE providers'[input[r].provider].api_base_url
                    = providers[input[r].provider].api_base_url ]_vars

C24_Witness ==
    \E r, q \in Reqs :
        /\ pc[r] = "done" /\ replyCode[r] = 0
        /\ pc[q] = "done" /\ replyCode[q] = 0
        /\ HasDeployment(input[r].azure)
        /\ HasDeployment(input[q].azure)
        /\ input[r].azure # input[q].azure
        /\ providers[AzureProvider].api_base_url = UrlFor(input[q].azure)

(* C25: the expiresAt of the scope's cache entry never decreases from one   *)
(* state to the next, whatever the order in which acquisitions complete.    *)
C25_ExpiryNeverDecreases ==
    [][ (HasEntry(tokenCache) /\ HasEntry(tokenCache'))
        => tokenCache'[AZURE_SCOPE].expiresAt >= tokenCache[AZURE_SCOPE].expiresAt ]_vars

C25_Witness ==
    \E w, r \in Reqs :
        /\ Acquired(w, tokenCache)
        /\ GotToken(r)
        /\ acqOf[r] > acqOf[w]
        /\ tokenCache[AZURE_SCOPE].expiresAt > FiftyMinutesMs

(* C26: the credential and its token provider are created at most once,     *)
(* whatever the number and the interleaving of the calls, and the token     *)
(* provider is not null where getAzureToken calls it.                       *)
C26_CredentialCreatedOnce ==
    [][ /\ azureCredential' <= 1
        /\ tokenProvider' <= 1
        /\ azureCredential # 0
           => (azureCredential' = azureCredential /\ tokenProvider' = tokenProvider)
        /\ \A r \in Reqs :
              (pc[r] = "idle" /\ pc'[r] = "awaiting") => tokenProvider' # 0 ]_vars

C26_Witness ==
    \E r, q \in Reqs :
        /\ r # q
        /\ acqOf[r] # 0
        /\ acqOf[q] # 0
        /\ azureCredential = 1
        /\ tokenProvider = 1

====
